---- MODULE Spec2Model ----
(***************************************************************************)
(* Model of skej (src/main.rs): operations, schedules, the conflict        *)
(* classifier OpPair::is_conflicting, Schedule::conflicting_pairs and      *)
(* Schedule::transactions.                                                 *)
(*                                                                         *)
(* A &'static str is modelled as the sequence of its bytes for TxId (whose *)
(* derived Ord the program uses) and as a TLA+ string for Data (which is   *)
(* only ever compared for equality).  An Op is a record [kind, tx]; an     *)
(* OpKind is a record with a tag and, for Read and Write only, a dat       *)
(* field.  An OpPair((a, b)) is the tuple <<a, b>>.  A reference into      *)
(* self.ops is the position it points at.                                  *)
(***************************************************************************)
EXTENDS Integers, Sequences, FiniteSets, TLC

\* Longest schedule drawn from the token alphabet below.
MaxLen == 3
\* Most calls of each query on one schedule.
MaxCalls == 2

\* Transaction-id tokens and data-item tokens handed to op!.
TxTokens == {1, 2, 10}
DataTokens == {"a", "x"}
\* The tokens of the schedules that vary the operation kinds.
PairTxTokens == {1, 2}
\* The data token of the schedules that vary the transactions.
GroupDataToken == "a"

---------------------------------------------------------------------------
(* Operation model *)

\* OpKind::Read(Data(d)), OpKind::Write(Data(d)), OpKind::Commit, OpKind::Abort
Read(d) == [tag |-> "Read", dat |-> d]
Write(d) == [tag |-> "Write", dat |-> d]
Commit == [tag |-> "Commit"]
Abort == [tag |-> "Abort"]

\* stringify!(n) for an integer literal n: its decimal digits, as ASCII bytes.
RECURSIVE stringify(_)
stringify(n) ==
    IF n < 10 THEN <<48 + n>>
    ELSE Append(stringify(n \div 10), 48 + (n % 10))

\* TxId(stringify!($tx_id))
TxId(tok) == stringify(tok)

\* The four arms of op!.
op_r(dat, tx_id) == [kind |-> Read(dat), tx |-> TxId(tx_id)]
op_w(dat, tx_id) == [kind |-> Write(dat), tx |-> TxId(tx_id)]
op_c(tx_id) == [kind |-> Commit, tx |-> TxId(tx_id)]
op_a(tx_id) == [kind |-> Abort, tx |-> TxId(tx_id)]

\* The decimal value of a digit string (used by the numeric-order variant).
RECURSIVE DecimalValue(_)
DecimalValue(s) ==
    IF s = <<>> THEN 0
    ELSE 10 * DecimalValue(SubSeq(s, 1, Len(s) - 1)) + (s[Len(s)] - 48)

\* Variant of TxIdLess: ids ordered by numeric value.
TxIdLessNumeric(a, b) == DecimalValue(a) < DecimalValue(b)

\* #[derive(PartialOrd, Ord)] on TxId(&'static str): byte-wise lexicographic
\* order, a proper prefix being smaller.
RECURSIVE TxIdLess(_, _)
TxIdLess(a, b) ==
    IF a = <<>> THEN b # <<>>
    ELSE IF b = <<>> THEN FALSE
    ELSE IF Head(a) # Head(b) THEN Head(a) < Head(b)
    ELSE TxIdLess(Tail(a), Tail(b))

---------------------------------------------------------------------------
(* Conflict classifier *)

are_different_transactions(self) == self[1].tx # self[2].tx

\* Variant of on_same_data: the data items are not compared.
on_same_data_kinds_only(self) ==
    IF self[1].kind.tag \notin {"Read", "Write"} THEN FALSE
    ELSE IF self[2].kind.tag \notin {"Read", "Write"} THEN FALSE
    ELSE TRUE

on_same_data(self) ==
    IF self[1].kind.tag \notin {"Read", "Write"} THEN FALSE
    ELSE IF self[2].kind.tag \notin {"Read", "Write"} THEN FALSE
    ELSE self[1].kind.dat = self[2].kind.dat

\* Variant of one_is_a_write: only the first operand is inspected.
one_is_a_write_first_only(self) == self[1].kind.tag = "Write"

one_is_a_write(self) ==
    \/ self[1].kind.tag = "Write"
    \/ self[2].kind.tag = "Write"

is_conflicting(self) ==
    are_different_transactions(self) /\ on_same_data(self) /\ one_is_a_write(self)

---------------------------------------------------------------------------
(* Schedule *)

\* Variant of to_vec: the copy comes out reversed.
to_vec_reversed(ops) == [i \in 1..Len(ops) |-> ops[Len(ops) + 1 - i]]

\* <[Op]>::to_vec: an element-wise copy.
to_vec(ops) == [i \in 1..Len(ops) |-> ops[i]]

\* Schedule::new
new(ops) == [ops |-> to_vec(ops)]

\* Variant of CombinationsNext: the first index is never bumped.
RECURSIVE CombinationsFirstRow(_, _)
CombinationsFirstRow(indices, n) ==
    <<indices>> \o
        (IF indices[2] # n THEN CombinationsFirstRow(<<indices[1], indices[2] + 1>>, n)
         ELSE <<>>)

\* Itertools::combinations(2) over n elements: the index vector starts at
\* (1, 2); each step bumps the rightmost index that is not at its maximum and
\* resets the ones after it; nothing is yielded when n < 2.
RECURSIVE CombinationsNext(_, _)
CombinationsNext(indices, n) ==
    <<indices>> \o
        (IF indices[2] # n THEN CombinationsNext(<<indices[1], indices[2] + 1>>, n)
         ELSE IF indices[1] # n - 1
              THEN CombinationsNext(<<indices[1] + 1, indices[1] + 2>>, n)
         ELSE <<>>)

\* Variant of combinations: every ordered pair of distinct positions.
RECURSIVE PermutationsFrom(_, _, _)
PermutationsFrom(i, j, n) ==
    IF i > n THEN <<>>
    ELSE IF j > n THEN PermutationsFrom(i + 1, 1, n)
    ELSE (IF i # j THEN <<<<i, j>>>> ELSE <<>>) \o PermutationsFrom(i, j + 1, n)

permutations(n) == PermutationsFrom(1, 1, n)

combinations(n) == IF n < 2 THEN <<>> ELSE CombinationsNext(<<1, 2>>, n)

\* Variant of MapOpPair: the components are swapped.
MapOpPairSwapped(self, p) == <<self.ops[p[2]], self.ops[p[1]]>>

\* .map(|p| OpPair((*p[0], *p[1])))
MapOpPair(self, p) == <<self.ops[p[1]], self.ops[p[2]]>>

\* Whether the transaction of op aborts somewhere in the schedule.
Aborts(self, op) ==
    \E i \in 1..Len(self.ops) :
        self.ops[i].tx = op.tx /\ self.ops[i].kind.tag = "Abort"

\* Variant of conflicting_pairs: operations of aborted transactions are left out.
conflicting_pairs_skip_aborted(self) ==
    LET examined == combinations(Len(self.ops))
        verdicts == [k \in 1..Len(examined) |->
                        /\ is_conflicting(MapOpPair(self, examined[k]))
                        /\ ~Aborts(self, self.ops[examined[k][1]])
                        /\ ~Aborts(self, self.ops[examined[k][2]])]
        idx == SelectSeq([k \in 1..Len(examined) |-> k], LAMBDA k: verdicts[k])
    IN [examined |-> examined,
        verdicts |-> verdicts,
        from |-> [k \in 1..Len(idx) |-> examined[idx[k]]],
        out |-> [k \in 1..Len(idx) |-> MapOpPair(self, examined[idx[k]])]]

\* Schedule::conflicting_pairs, with the positions it went through:
\*   examined  the position pairs the classifier was applied to, in order
\*   verdicts  the classifier's answer for each of them
\*   from      the position pairs that passed the filter, in order
\*   out       the returned Vec<OpPair>
conflicting_pairs(self) ==
    LET examined == combinations(Len(self.ops))
        verdicts == [k \in 1..Len(examined) |->
                        is_conflicting(MapOpPair(self, examined[k]))]
        idx == SelectSeq([k \in 1..Len(examined) |-> k], LAMBDA k: verdicts[k])
    IN [examined |-> examined,
        verdicts |-> verdicts,
        from |-> [k \in 1..Len(idx) |-> examined[idx[k]]],
        out |-> [k \in 1..Len(idx) |-> MapOpPair(self, examined[idx[k]])]]

\* Variant of EntryInsert: or_insert(vec![]) (the first operation is dropped).
EntryInsertEmpty(result, op) ==
    IF op.tx \in DOMAIN result
    THEN [result EXCEPT ![op.tx] = Append(@, op)]
    ELSE (op.tx :> <<>>) @@ result

\* Variant of EntryInsert: insert(op.tx, vec![op]) (earlier operations are lost).
EntryInsertOverwrite(result, op) ==
    (op.tx :> <<op>>) @@ result

\* result.entry(op.tx).and_modify(|e| e.push(op.clone())).or_insert(vec![op.clone()])
EntryInsert(result, op) ==
    IF op.tx \in DOMAIN result
    THEN [result EXCEPT ![op.tx] = Append(@, op)]
    ELSE (op.tx :> <<op>>) @@ result

\* for op in &self.ops { ... } starting from position i
RECURSIVE GroupLoop(_, _, _)
GroupLoop(ops, i, result) ==
    IF i > Len(ops) THEN result
    ELSE GroupLoop(ops, i + 1, EntryInsert(result, ops[i]))

\* The smallest key of a non-empty BTreeMap.
FirstKey(map) ==
    CHOOSE k \in DOMAIN map : \A o \in DOMAIN map : o = k \/ TxIdLess(k, o)

\* BTreeMap::into_iter().map(|(id, ops)| Transaction { id, ops }).collect()
RECURSIVE IntoIter(_)
IntoIter(map) ==
    IF DOMAIN map = {} THEN <<>>
    ELSE LET k == FirstKey(map)
         IN <<[id |-> k, ops |-> map[k]]>> \o
                IntoIter([o \in DOMAIN map \ {k} |-> map[o]])

\* Schedule::transactions
transactions(self) == IntoIter(GroupLoop(self.ops, 1, <<>>))

---------------------------------------------------------------------------
(* Inputs *)

\* Every operation op! builds from the tokens.
Ops ==
    {op_r(d, t) : d \in DataTokens, t \in TxTokens}
        \cup {op_w(d, t) : d \in DataTokens, t \in TxTokens}
        \cup {op_c(t) : t \in TxTokens}
        \cup {op_a(t) : t \in TxTokens}

\* Two transactions, every kind of operation on every data item.
PairOps == {o \in Ops : o.tx \in {TxId(t) : t \in PairTxTokens}}

\* Every transaction, reading, writing one data item and committing.
GroupOps ==
    {op_r(GroupDataToken, t) : t \in TxTokens}
        \cup {op_w(GroupDataToken, t) : t \in TxTokens}
        \cup {op_c(t) : t \in TxTokens}

\* sched!((r, a, 1), (w, a, 2), (a, 2), (c, 1)) in main: the slice given to new.
MainOps == <<op_r("a", 1), op_w("a", 2), op_a(2), op_c(1)>>

\* The slices given to new: all of length at most MaxLen over PairOps and
\* over GroupOps, and main's.
Schedules ==
    UNION {[1..n -> PairOps] : n \in 0..MaxLen}
        \cup UNION {[1..n -> GroupOps] : n \in 0..MaxLen}
        \cup {MainOps}

---------------------------------------------------------------------------
(* State machine *)

VARIABLES
    args,       \* the slice handed to Schedule::new
    schedule,   \* the Schedule
    nTx,        \* calls of transactions() so far
    nCp,        \* calls of conflicting_pairs() so far
    txOut,      \* what the last transactions() returned
    cpRun       \* the last conflicting_pairs() run (see conflicting_pairs)

vars == <<args, schedule, nTx, nCp, txOut, cpRun>>

NoRun == [examined |-> <<>>, verdicts |-> <<>>, from |-> <<>>, out |-> <<>>]

Init ==
    /\ args \in Schedules
    /\ schedule = new(args)
    /\ nTx = 0
    /\ nCp = 0
    /\ txOut = <<>>
    /\ cpRun = NoRun

\* schedule.transactions()
Transactions ==
    /\ nTx < MaxCalls
    /\ txOut' = transactions(schedule)
    /\ nTx' = nTx + 1
    /\ UNCHANGED <<args, schedule, nCp, cpRun>>

\* schedule.conflicting_pairs()
ConflictingPairs ==
    /\ nCp < MaxCalls
    /\ cpRun' = conflicting_pairs(schedule)
    /\ nCp' = nCp + 1
    /\ UNCHANGED <<args, schedule, nTx, txOut>>

\* schedule_report(&schedule): both queries, transactions first.
ScheduleReport ==
    /\ nTx < MaxCalls
    /\ nCp < MaxCalls
    /\ txOut' = transactions(schedule)
    /\ cpRun' = conflicting_pairs(schedule)
    /\ nTx' = nTx + 1
    /\ nCp' = nCp + 1
    /\ UNCHANGED <<args, schedule>>

Next == Transactions \/ ConflictingPairs \/ ScheduleReport

Spec == Init /\ [][Next]_vars

---------------------------------------------------------------------------
(* Properties *)

TxCalled == nTx > 0
CpCalled == nCp > 0

\* The operations at an examined position pair.
OpAt(i) == schedule.ops[i]

IsAccess(o) == o.kind.tag \in {"Read", "Write"}

\* The conflict relation as the specification words it: different
\* transactions, both accesses of the same item, at least one a write.
Conflicts(a, b) ==
    /\ a.tx # b.tx
    /\ IsAccess(a) /\ IsAccess(b) /\ a.kind.dat = b.kind.dat
    /\ (a.kind.tag = "Write" \/ b.kind.tag = "Write")

\* Position pairs (i, j), i < j, of a schedule of length n.
PositionPairs(n) == {p \in (1..n) \X (1..n) : p[1] < p[2]}

\* Lexicographic order on position pairs.
PairBefore(p, q) == p[1] < q[1] \/ (p[1] = q[1] /\ p[2] < q[2])

\* How many positions of sequence s hold a value satisfying Test.
CountIn(s, Test(_)) == Cardinality({k \in 1..Len(s) : Test(s[k])})

\* Byte-wise lexicographic order on strings, stated without recursion.
LexLess(a, b) ==
    \E p \in 0..Len(a) :
        /\ p <= Len(b)
        /\ \A q \in 1..p : a[q] = b[q]
        /\ \/ (p = Len(a) /\ p < Len(b))
           \/ (p < Len(a) /\ p < Len(b) /\ a[p + 1] < b[p + 1])

\* The conflicting pairs found by scanning i ascending, then j ascending.
RECURSIVE ScanFrom(_, _, _)
ScanFrom(ops, i, j) ==
    IF i >= Len(ops) THEN <<>>
    ELSE IF j > Len(ops) THEN ScanFrom(ops, i + 1, i + 2)
    ELSE (IF Conflicts(ops[i], ops[j]) THEN <<<<ops[i], ops[j]>>>> ELSE <<>>)
            \o ScanFrom(ops, i, j + 1)

RECURSIVE Concat(_)
Concat(txs) == IF txs = <<>> THEN <<>> ELSE Head(txs).ops \o Concat(Tail(txs))

\* C1: is_conflicting is true of a pair exactly when the two operations are
\* of different transactions, both are reads or writes of the same data item,
\* and at least one is a write (so never for one transaction, never with a
\* commit or abort, never for two reads).
C1_ConflictIffThreeConditions ==
    CpCalled =>
        \A k \in 1..Len(cpRun.examined) :
            LET a == OpAt(cpRun.examined[k][1])
                b == OpAt(cpRun.examined[k][2])
            IN /\ cpRun.verdicts[k] = Conflicts(a, b)
               /\ a.tx = b.tx => ~cpRun.verdicts[k]
               /\ (~IsAccess(a) \/ ~IsAccess(b)) => ~cpRun.verdicts[k]
               /\ (a.kind.tag = "Read" /\ b.kind.tag = "Read") => ~cpRun.verdicts[k]

C1_Witness ==
    /\ CpCalled
    /\ \E k, l, m \in 1..Len(cpRun.examined) :
        LET a == OpAt(cpRun.examined[l][1])
            b == OpAt(cpRun.examined[l][2])
            c == OpAt(cpRun.examined[m][1])
            d == OpAt(cpRun.examined[m][2])
        IN /\ cpRun.verdicts[k]
           /\ ~cpRun.verdicts[l]
           /\ a.tx # b.tx /\ a.kind.tag = "Read" /\ b.kind.tag = "Read"
           /\ a.kind.dat = b.kind.dat
           /\ ~cpRun.verdicts[m]
           /\ c.tx = d.tx /\ c.kind.tag = "Read" /\ d.kind.tag = "Write"
           /\ c.kind.dat = d.kind.dat

\* C2: the classifier is symmetric: its answer for (a, b) is its answer for
\* (b, a).
C2_Symmetric ==
    CpCalled =>
        \A k \in 1..Len(cpRun.examined) :
            LET a == OpAt(cpRun.examined[k][1])
                b == OpAt(cpRun.examined[k][2])
            IN cpRun.verdicts[k] = is_conflicting(<<b, a>>)

C2_Witness ==
    /\ CpCalled
    /\ \E k \in 1..Len(cpRun.examined) :
        /\ cpRun.verdicts[k]
        /\ OpAt(cpRun.examined[k][1]).kind.tag = "Read"
        /\ OpAt(cpRun.examined[k][2]).kind.tag = "Write"

\* C3: conflicting_pairs returns exactly one entry per position pair i < j
\* whose operations conflict and nothing else; equal operations at different
\* positions give their own entries (nothing is deduplicated).
C3_OneEntryPerConflictingPositionPair ==
    CpCalled =>
        LET n == Len(schedule.ops)
            conflicting == {p \in PositionPairs(n) : Conflicts(OpAt(p[1]), OpAt(p[2]))}
        IN /\ {cpRun.from[k] : k \in 1..Len(cpRun.from)} = conflicting
           /\ Len(cpRun.from) = Cardinality(conflicting)
           /\ Len(cpRun.out) = Cardinality(conflicting)
           /\ \A v \in {cpRun.out[k] : k \in 1..Len(cpRun.out)}
                        \cup {<<OpAt(p[1]), OpAt(p[2])>> : p \in conflicting} :
                CountIn(cpRun.out, LAMBDA e : e = v)
                    = Cardinality({p \in conflicting :
                                     <<OpAt(p[1]), OpAt(p[2])>> = v})

C3_Witness ==
    /\ CpCalled
    /\ \E k, l \in 1..Len(cpRun.out) : k < l /\ cpRun.out[k] = cpRun.out[l]

\* C4: the reported pairs come in the order of the scan of position pairs
\* (i ascending, then j ascending), and the first component of each is the
\* operation at the earlier position.
C4_ScanOrder ==
    CpCalled =>
        /\ cpRun.out = ScanFrom(schedule.ops, 1, 2)
        /\ \A k, l \in 1..Len(cpRun.from) :
            k < l => PairBefore(cpRun.from[k], cpRun.from[l])
        /\ \A k \in 1..Len(cpRun.out) :
            /\ cpRun.from[k][1] < cpRun.from[k][2]
            /\ cpRun.out[k][1] = OpAt(cpRun.from[k][1])
            /\ cpRun.out[k][2] = OpAt(cpRun.from[k][2])

C4_Witness ==
    /\ CpCalled
    /\ Len(cpRun.out) = 3
    /\ cpRun.out[1][1] # cpRun.out[1][2]
    /\ cpRun.out[1] # cpRun.out[2]
    /\ cpRun.out[2] # cpRun.out[3]

\* C5: transactions returns one transaction per id occurring in the schedule,
\* in strictly ascending id order, each with exactly the schedule's operations
\* of that id in schedule order.
C5_GroupedSortedSubsequences ==
    TxCalled =>
        /\ {txOut[k].id : k \in 1..Len(txOut)}
                = {schedule.ops[i].tx : i \in 1..Len(schedule.ops)}
        /\ \A k, l \in 1..Len(txOut) :
            k < l => LexLess(txOut[k].id, txOut[l].id)
        /\ \A k \in 1..Len(txOut) :
            txOut[k].ops = SelectSeq(schedule.ops, LAMBDA o : o.tx = txOut[k].id)

C5_Witness ==
    /\ TxCalled
    /\ Len(schedule.ops) = 3
    /\ Len(txOut) = 2
    /\ schedule.ops[1].tx = schedule.ops[3].tx
    /\ schedule.ops[1] # schedule.ops[3]
    /\ txOut[2].id = schedule.ops[1].tx

\* C6: the concatenation of the returned transactions' operations has the
\* same multiset of operations as the schedule (same length, nothing lost or
\* duplicated) and every operation sits under its own transaction id.
C6_GroupingComplete ==
    TxCalled =>
        LET cat == Concat(txOut)
        IN /\ Len(cat) = Len(schedule.ops)
           /\ \A o \in {cat[k] : k \in 1..Len(cat)}
                        \cup {schedule.ops[i] : i \in 1..Len(schedule.ops)} :
                CountIn(cat, LAMBDA e : e = o)
                    = CountIn(schedule.ops, LAMBDA e : e = o)
           /\ \A k \in 1..Len(txOut) :
                \A m \in 1..Len(txOut[k].ops) : txOut[k].ops[m].tx = txOut[k].id

C6_Witness ==
    /\ TxCalled
    /\ Len(schedule.ops) = 3
    /\ schedule.ops[1] = schedule.ops[3]
    /\ schedule.ops[1].tx # schedule.ops[2].tx
    /\ TxIdLess(schedule.ops[2].tx, schedule.ops[1].tx)

C8_EnumerationCount ==
    CpCalled =>
        LET n == Len(schedule.ops)
        IN /\ 2 * Len(cpRun.examined) = n * (n - 1)
           /\ Len(cpRun.verdicts) = Len(cpRun.examined)
           /\ {cpRun.examined[k] : k \in 1..Len(cpRun.examined)} = PositionPairs(n)
           /\ \A i, j \in 1..n :
                i # j => CountIn(cpRun.examined,
                                 LAMBDA p : {p[1], p[2]} = {i, j}) = 1
           /\ 2 * Len(cpRun.out) <= n * (n - 1)

C8_Witness ==
    /\ CpCalled
    /\ Len(schedule.ops) = 3
    /\ Len(cpRun.examined) = 3
    /\ Len(cpRun.out) = 3

\* C9: on main's schedule [R_1(a), W_2(a), A_2, C_1], transactions returns
\* transaction 1 with [R_1(a), C_1] then transaction 2 with [W_2(a), A_2], and
\* conflicting_pairs returns the one pair (R_1(a), W_2(a)), though
\* transaction 2 aborts later.
C9_MainScenario ==
    LET t1 == <<49>>
        t2 == <<50>>
        R1a == [kind |-> [tag |-> "Read", dat |-> "a"], tx |-> t1]
        W2a == [kind |-> [tag |-> "Write", dat |-> "a"], tx |-> t2]
        A2 == [kind |-> [tag |-> "Abort"], tx |-> t2]
        C1 == [kind |-> [tag |-> "Commit"], tx |-> t1]
    IN args = MainOps =>
        /\ schedule.ops = <<R1a, W2a, A2, C1>>
        /\ TxCalled => txOut = <<[id |-> t1, ops |-> <<R1a, C1>>],
                                 [id |-> t2, ops |-> <<W2a, A2>>]>>
        /\ CpCalled => cpRun.out = << <<R1a, W2a>> >>

C9_Witness == args = MainOps /\ TxCalled /\ CpCalled

\* C10: the ascending order of transactions is the lexicographic order of
\* the id's text: with transactions written 2 and 10 in the schedule, the
\* transaction "10" comes out before the transaction "2".
C10_LexicographicIdOrder ==
    (/\ TxCalled
     /\ \E i \in 1..Len(args) : args[i].tx = TxId(2)
     /\ \E i \in 1..Len(args) : args[i].tx = TxId(10))
        => \E k, l \in 1..Len(txOut) :
             /\ k < l
             /\ txOut[k].id = <<49, 48>>
             /\ txOut[l].id = <<50>>

C10_Witness ==
    /\ TxCalled
    /\ Len(args) >= 2
    /\ args[1].tx = TxId(2)
    /\ args[2].tx = TxId(10)
    /\ Len(txOut) = 2

====
